---- MODULE Spec2Model ----
(***************************************************************************)
(* Flight dynamics and control core of the UAV virtual lab:                *)
(* PhysicsEngine (rigid body, motor mixer, battery, collision),            *)
(* FlightController (sticks, keyboard, flight modes) and the PID           *)
(* primitives.                                                             *)
(*                                                                         *)
(* JavaScript numbers are modelled in fixed point:                         *)
(*   lengths in cm, velocities in cm/s, accelerations in cm/s^2            *)
(*   forces in mN, masses in g, torques in uN.m                            *)
(*   normalized quantities (motor speeds, control axes) in 1/100           *)
(*   quaternion components and sines in 1/1000, angles in mrad             *)
(*   voltage in mV, current in mA, charge in uAh, battery percentage in    *)
(*   1/100 percent, temperature in m degC, time in 1/120 s                 *)
(***************************************************************************)
EXTENDS Integers, Sequences, FiniteSets, TLC

VARIABLES
    config,         \* PhysicsEngine.config (immutable per flight)
    environment,    \* PhysicsEngine.environment, with the terrain in use
    state,          \* PhysicsEngine.state
    batteryUsedAh,  \* PhysicsEngine.batteryUsedAh
    homePosition,   \* PhysicsEngine.homePosition
    forces,         \* terms of the last calculateForces() call
    integration,    \* what the last updateLinearMotion() call integrated to
    fc,             \* FlightController fields
    pid,            \* the six PIDController memories of CascadedPIDController
    lastOp,         \* the operation that produced the current state
    commands,       \* number of user commands so far
    ticks,          \* number of update() calls so far
    call,           \* arguments and result of the last call made on a single
                    \* PIDController or on the motor mixer, or the progress
                    \* of the current animation frame
    physicsAccumulator  \* UAVSimulator.physicsAccumulator, in 1/1200 s

vars == <<config, environment, state, batteryUsedAh, homePosition, forces,
          integration, fc, pid, lastOp, commands, ticks, call,
          physicsAccumulator>>

physVars == <<config, environment, state, batteryUsedAh, homePosition, forces,
              integration>>
fcVars == <<fc, pid>>

----------------------------------------------------------------------------
(* Bounds of the model *)

MaxTicks == 3
MaxCommands == 2
MaxFcTicks == 2
MaxSustainedTicks == 9
MaxSpeedCm == 20000
MaxPosCm == 100000
MaxOmegaMrad == 200000
MaxVoltMv == 600000
MaxUsedUah == 15000000

(* Fixed-point scales *)

Unit == 100
QUnit == 1000
TicksPerSecond == 120

----------------------------------------------------------------------------
(* Arithmetic helpers *)

Abs(a) == IF a < 0 THEN -a ELSE a
Max(a, b) == IF a > b THEN a ELSE b
Min(a, b) == IF a < b THEN a ELSE b
\* Math.max(lo, v): the Math.min(hi, .) of the clamp left out
ClampNoCeiling(v, lo, hi) == Max(lo, v)

\* Math.max(lo, Math.min(hi, v))
Clamp(v, lo, hi) == Max(lo, Min(hi, v))

RECURSIVE SqrtIter(_, _, _)
SqrtIter(n, lo, hi) ==
    IF lo >= hi THEN lo
    ELSE LET mid == (lo + hi + 1) \div 2
         IN IF mid * mid <= n THEN SqrtIter(n, mid, hi)
                              ELSE SqrtIter(n, lo, mid - 1)

ISqrt(n) == IF n <= 0 THEN 0 ELSE SqrtIter(n, 0, 46340)

Vec(a, b, c) == [x |-> a, y |-> b, z |-> c]
ZeroVec == Vec(0, 0, 0)
VecAdd(a, b) == Vec(a.x + b.x, a.y + b.y, a.z + b.z)
VecSub(a, b) == Vec(a.x - b.x, a.y - b.y, a.z - b.z)
\* Vector3.length(); large vectors are measured in a coarser unit
VecLength(a) ==
    LET k == Max(Abs(a.x), Max(Abs(a.y), Abs(a.z))) \div 20000 + 1
    IN k * ISqrt((a.x \div k) * (a.x \div k) + (a.y \div k) * (a.y \div k)
                 + (a.z \div k) * (a.z \div k))
\* v * dt, dt in 1/120 s
VecTimesDt(a, dt) ==
    Vec((a.x * dt) \div TicksPerSecond,
        (a.y * dt) \div TicksPerSecond,
        (a.z * dt) \div TicksPerSecond)

Quat(a, b, c, d) == [x |-> a, y |-> b, z |-> c, w |-> d]
IdentityQuat == Quat(0, 0, 0, QUnit)

\* sine of an angle in mrad, result in 1/1000 (Bhaskara's approximation)
Pi == 3142
SinPos(a) == (16 * a * (Pi - a)) \div ((5 * Pi * Pi - 4 * a * (Pi - a)) \div QUnit)
Sin(a) ==
    LET r == a % (2 * Pi)
    IN IF r <= Pi THEN SinPos(r) ELSE -SinPos(r - Pi)
Cos(a) == Sin(a + Pi \div 2)

----------------------------------------------------------------------------
(* Configurations *)

DefaultConfig ==
    [frame |-> [type |-> "quad-x", material |-> "carbon", size |-> 450],
     propellers |-> [size |-> 8, pitch |-> 5, blades |-> 2],
     motors |-> [kv |-> 2300],
     battery |-> [cells |-> 4, capacity |-> 3300],
     payload |-> [type |-> "none"]]

\* a 6-cell quad with a very small pack: lifts off, drains within a few ticks
SmallPackQuad ==
    [DefaultConfig EXCEPT !.battery = [cells |-> 6, capacity |-> 50]]

SmallPackHexa ==
    [DefaultConfig EXCEPT !.frame.type = "hexa",
                          !.battery = [cells |-> 4, capacity |-> 50]]

\* the largest selectable power train: 8 motors, 3000 kv, 6 cells
HeavyOcta ==
    [DefaultConfig EXCEPT !.frame.type = "octa", !.motors.kv = 3000,
                          !.battery = [cells |-> 6, capacity |-> 3300]]

\* terrain height (cm) returned by TerrainGenerator.getTerrainHeight
PlateauHeight == 3000

getTerrainHeight(terrain, x, z) ==
    IF terrain = "plateau" THEN PlateauHeight ELSE 0

Calm(t) == [windSpeed |-> 0, windDirection |-> 0, temperature |-> 20, terrain |-> t]
Windy(t) == [windSpeed |-> 5, windDirection |-> 90, temperature |-> 20, terrain |-> t]

\* the flights explored: a configuration and the environment it flies in
Flights ==
    {<<SmallPackQuad, Calm("urban")>>, <<DefaultConfig, Calm("plateau")>>,
     <<SmallPackHexa, Windy("urban")>>}

----------------------------------------------------------------------------
(* PhysicsEngine: derived properties *)

getMotorCount(cfg) ==
    IF cfg.frame.type \in {"quad-x", "quad-plus"} THEN 4
    ELSE IF cfg.frame.type = "hexa" THEN 6
    ELSE IF cfg.frame.type = "octa" THEN 8
    ELSE 4

getPayloadMass(cfg) ==
    CASE cfg.payload.type = "camera-small" -> 50
      [] cfg.payload.type = "camera-medium" -> 100
      [] cfg.payload.type = "camera-large" -> 200
      [] cfg.payload.type = "sensor" -> 50
      [] cfg.payload.type = "delivery" -> 300
      [] OTHER -> 0

\* grams
calculateTotalMass(cfg) ==
    LET frameMultiplier ==
            CASE cfg.frame.material = "aluminum" -> 13
              [] cfg.frame.material = "plastic" -> 15
              [] OTHER -> 10
        frameMass == (200 * cfg.frame.size * frameMultiplier) \div 4500
        motorMass == 40 * getMotorCount(cfg)
        propMass == cfg.propellers.size * 2 * getMotorCount(cfg)
        batteryMass == (cfg.battery.capacity * 15) \div 100
        fcMass == 30
    IN frameMass + motorMass + propMass + batteryMass + fcMass + getPayloadMass(cfg)

\* kg/m^3 in 1/1000
calculateAirDensity(env) ==
    (1225 * 28815) \div (env.temperature * 100 + 27315)

\* rad/s
maxOmega(cfg) == (cfg.motors.kv * cfg.battery.cells * 43982) \div 100000

\* mN; thrustCoefficient * maxOmega^2
maxThrustPerMotor(cfg) ==
    LET d == cfg.propellers.size * 254
        d2 == (d * d) \div 1000
        d4 == (d2 * d2) \div 1000
        w2 == (maxOmega(cfg) * maxOmega(cfg)) \div 10000
        bladeMultiplier == 10 + (cfg.propellers.blades - 2)
    IN ((((d4 * w2) \div 1000) * cfg.propellers.pitch) * bladeMultiplier) \div 1000

\* mm
armLength(cfg) == cfg.frame.size \div 2

\* 0.5 * airDensity * dragCoefficient * frontalArea, in 1e-4 N/(m/s)^2
dragFactor(cfg, env) ==
    (((calculateAirDensity(env) * cfg.frame.size * cfg.frame.size) \div 4) \div 1000) \div 100

----------------------------------------------------------------------------
(* PhysicsEngine: construction *)

ZeroMotors(cfg) == [i \in 1..getMotorCount(cfg) |-> 0]

InitialState(cfg, env) ==
    [position |-> Vec(0, 2 * Unit, 0),
     velocity |-> ZeroVec,
     acceleration |-> ZeroVec,
     rotation |-> IdentityQuat,
     angularVelocity |-> ZeroVec,
     motorSpeeds |-> ZeroMotors(cfg),
     batteryVoltage |-> cfg.battery.cells * 4200,
     batteryPercentage |-> 100 * Unit,
     currentDraw |-> 0,
     isArmed |-> FALSE,
     timestamp |-> 0,
     temperature |-> 20000,
     isCollided |-> FALSE]

NoCall == [op |-> "none"]
NoForces == [computed |-> FALSE, thrust |-> 0, windApplied |-> FALSE, total |-> ZeroVec]
NoIntegration == [ran |-> FALSE, y |-> 0, speed |-> 0, groundHeight |-> 0]

----------------------------------------------------------------------------
(* PhysicsEngine.updateMotorSpeeds *)

\* the mixer with the roll sign of the front-left motor inverted
MixQuadRollSwapped(c, base) ==
    <<base - c.pitch + c.roll - c.yaw,
      base + c.pitch - c.roll - c.yaw,
      base - c.pitch + c.roll + c.yaw,
      base + c.pitch + c.roll + c.yaw>>

MixQuad(c, base) ==
    <<base - c.pitch + c.roll - c.yaw,
      base + c.pitch - c.roll - c.yaw,
      base - c.pitch - c.roll + c.yaw,
      base + c.pitch + c.roll + c.yaw>>

MotorLag(cfg, speed, dt) ==
    LET omegaMax == Max(maxOmega(cfg), 1)
        targetSpeed == speed * omegaMax
        currentSpeed == speed * omegaMax
        delta == ((targetSpeed - currentSpeed) * 20 * dt) \div TicksPerSecond
    IN (currentSpeed + delta) \div omegaMax

\* the clamp with its upper bound forgotten
ClampMotorNoCeiling(v) == Max(0, v)

ClampMotor(v) == Max(0, Min(Unit, v))

updateMotorSpeeds(cfg, s, controls, dt) ==
    LET baseThrottle == Max(0, Min(Unit, controls.throttle))
        motorCount == getMotorCount(cfg)
        mixed == IF motorCount = 4 THEN MixQuad(controls, baseThrottle)
                 ELSE [i \in 1..motorCount |-> baseThrottle]
        clamped == [i \in 1..motorCount |-> ClampMotor(mixed[i])]
    IN [s EXCEPT !.motorSpeeds =
            [i \in 1..motorCount |-> MotorLag(cfg, clamped[i], dt)]]

----------------------------------------------------------------------------
(* PhysicsEngine.checkCollisions *)

CrashSpeed == 1000

checkCollisions(env, s) ==
    LET groundHeight == getTerrainHeight(env.terrain, s.position.x, s.position.z)
    IN IF s.position.y < groundHeight
       THEN LET s1 == [s EXCEPT !.position.y = groundHeight]
            IN IF VecLength(s1.velocity) > CrashSpeed
               THEN [s1 EXCEPT !.isCollided = TRUE, !.isArmed = FALSE]
               ELSE s1
       ELSE s

----------------------------------------------------------------------------
(* PhysicsEngine.calculateForces *)

RECURSIVE SumThrust(_, _, _)
SumThrust(cfg, speeds, i) ==
    IF i = 0 THEN 0
    ELSE (maxThrustPerMotor(cfg) * speeds[i] * speeds[i]) \div (Unit * Unit)
         + SumThrust(cfg, speeds, i - 1)

\* (0, t, 0) rotated by the quaternion q
ApplyQuaternionUp(q, t) ==
    Vec((t * ((2 * (q.x * q.y - q.w * q.z)) \div QUnit)) \div QUnit,
        (t * (QUnit - (2 * (q.x * q.x + q.z * q.z)) \div QUnit)) \div QUnit,
        (t * ((2 * (q.y * q.z + q.w * q.x)) \div QUnit)) \div QUnit)

\* -factor * |v| * v, the drag of a body moving at v (cm/s), in mN
DragOf(factor, v) ==
    LET speed == VecLength(v)
    IN Vec(-((((speed * v.x) \div 1000) * factor) \div 100),
           -((((speed * v.y) \div 1000) * factor) \div 100),
           -((((speed * v.z) \div 1000) * factor) \div 100))

\* an outcome of perlin.noise3D for the three turbulence samples, in 1/100
NoiseSamples == {Vec(50, -50, 50)}

WindVelocity(env, noise) ==
    LET windSpeed == env.windSpeed * Unit
        windDir == (env.windDirection * Pi) \div 180
    IN Vec((Sin(windDir) * windSpeed) \div QUnit + (noise.x * env.windSpeed * 3) \div 10,
           (noise.y * env.windSpeed * 2) \div 10,
           (Cos(windDir) * windSpeed) \div QUnit + (noise.z * env.windSpeed * 3) \div 10)

\* the early return for a disarmed aircraft left out
WindNeverSuppressed(s) == FALSE

WindSuppressed(s) == ~s.isArmed

calculateForces(cfg, env, s, noise) ==
    LET rawThrust == SumThrust(cfg, s.motorSpeeds, Len(s.motorSpeeds))
        altitude == s.position.y
        rotorDiameter == (cfg.propellers.size * 254) \div 100
        totalThrust ==
            IF altitude < rotorDiameter
            THEN (rawThrust * (1000 + (100 * (rotorDiameter - altitude)) \div rotorDiameter)) \div 1000
            ELSE rawThrust
        thrustWorld == ApplyQuaternionUp(s.rotation, totalThrust)
        gravity == Vec(0, -((calculateTotalMass(cfg) * 981) \div 100), 0)
        \* areaTop and areaSide are the same number, so effectiveArea = frontalArea
        dragForce == IF VecLength(s.velocity) > 1
                     THEN DragOf(dragFactor(cfg, env), s.velocity) ELSE ZeroVec
        base == VecAdd(VecAdd(thrustWorld, gravity), dragForce)
        relativeVelocity == VecSub(s.velocity, WindVelocity(env, noise))
        windForce == IF VecLength(relativeVelocity) > 1
                     THEN DragOf(dragFactor(cfg, env), relativeVelocity) ELSE ZeroVec
    IN IF WindSuppressed(s)
       THEN [computed |-> TRUE, thrust |-> totalThrust, windApplied |-> FALSE,
             total |-> base]
       ELSE [computed |-> TRUE, thrust |-> totalThrust, windApplied |-> TRUE,
             total |-> VecAdd(base, windForce)]

----------------------------------------------------------------------------
(* PhysicsEngine.calculateTorques *)

calculateTorques(cfg, s, controls) ==
    LET t == maxThrustPerMotor(cfg)
        w == s.angularVelocity
    IN Vec((controls.roll * armLength(cfg) * t * 2) \div 100 - w.x * 100,
           (controls.yaw * t) \div 2 - w.y * 100,
           (controls.pitch * armLength(cfg) * t * 2) \div 100 - w.z * 100)

----------------------------------------------------------------------------
(* PhysicsEngine.updateLinearMotion *)

GroundFloor == 10

\* the integration alone, without the ground test
updateLinearMotionNoGround(cfg, s, f, dt) ==
    LET m == calculateTotalMass(cfg)
        a == Vec((f.x * 100) \div m, (f.y * 100) \div m, (f.z * 100) \div m)
        v == VecAdd(s.velocity, VecTimesDt(a, dt))
        p == VecAdd(s.position, VecTimesDt(v, dt))
    IN [s EXCEPT !.acceleration = a, !.velocity = v, !.position = p]

updateLinearMotion(cfg, s, f, dt) ==
    LET m == calculateTotalMass(cfg)
        a == Vec((f.x * 100) \div m, (f.y * 100) \div m, (f.z * 100) \div m)
        v == VecAdd(s.velocity, VecTimesDt(a, dt))
        p == VecAdd(s.position, VecTimesDt(v, dt))
        s1 == [s EXCEPT !.acceleration = a, !.velocity = v, !.position = p]
    IN IF p.y < GroundFloor
       THEN LET s2 == [s1 EXCEPT !.position.y = GroundFloor,
                                 !.velocity = Vec((v.x * 8) \div 10,
                                                  Max(0, (v.y * (-3)) \div 10),
                                                  (v.z * 8) \div 10)]
            IN IF ~s.isArmed
               THEN [s2 EXCEPT !.velocity.x = 0, !.velocity.z = 0,
                               !.angularVelocity = ZeroVec]
               ELSE s2
       ELSE s1

----------------------------------------------------------------------------
(* PhysicsEngine.updateAngularMotion *)

\* THREE.Quaternion.setFromEuler, order XYZ; angles in mrad
QuatFromEuler(ex, ey, ez) ==
    LET c1 == Cos(ex \div 2)  s1 == Sin(ex \div 2)
        c2 == Cos(ey \div 2)  s2 == Sin(ey \div 2)
        c3 == Cos(ez \div 2)  s3 == Sin(ez \div 2)
        P3(a, b, c) == (((a * b) \div QUnit) * c) \div QUnit
    IN Quat(P3(s1, c2, c3) + P3(c1, s2, s3),
            P3(c1, s2, c3) - P3(s1, c2, s3),
            P3(c1, c2, s3) + P3(s1, s2, c3),
            P3(c1, c2, c3) - P3(s1, s2, s3))

\* THREE.Quaternion.multiply
QuatMultiply(a, b) ==
    Quat((a.x * b.w + a.w * b.x + a.y * b.z - a.z * b.y) \div QUnit,
         (a.y * b.w + a.w * b.y + a.z * b.x - a.x * b.z) \div QUnit,
         (a.z * b.w + a.w * b.z + a.x * b.y - a.y * b.x) \div QUnit,
         (a.w * b.w - a.x * b.x - a.y * b.y - a.z * b.z) \div QUnit)

QuatLength(q) == ISqrt(q.x * q.x + q.y * q.y + q.z * q.z + q.w * q.w)

\* the quaternion left as multiplied
QuatNotNormalized(q) == q

\* THREE.Quaternion.normalize
QuatNormalize(q) ==
    LET l == QuatLength(q)
    IN IF l = 0 THEN IdentityQuat
       ELSE Quat((q.x * QUnit) \div l, (q.y * QUnit) \div l,
                 (q.z * QUnit) \div l, (q.w * QUnit) \div l)

\* totalMass * armLength^2, in 1e-4 kg.m^2
inertia(cfg) ==
    ((calculateTotalMass(cfg) * armLength(cfg) * armLength(cfg)) \div 1000) \div 100

\* a vector or quaternion whose components are NaN or +-Infinity
NotFinite == [finite |-> FALSE]

IsFinite(s) ==
    /\ DOMAIN s.angularVelocity = {"x", "y", "z"}
    /\ DOMAIN s.rotation = {"x", "y", "z", "w"}

\* torques.divideScalar(inertia) multiplies by 1 / inertia: with inertia 0
\* that is Infinity, every component of the acceleration is NaN or
\* +-Infinity, and so are the angular velocity and the rotation built on it
updateAngularMotion(cfg, s, torques, dt) ==
    LET i == inertia(cfg)
    IN IF i = 0
       THEN [s EXCEPT !.angularVelocity = NotFinite, !.rotation = NotFinite]
       ELSE LET angularAccel == Vec((torques.x * 10) \div i, (torques.y * 10) \div i,
                                    (torques.z * 10) \div i)
                w == VecAdd(s.angularVelocity, VecTimesDt(angularAccel, dt))
                d == VecTimesDt(w, dt)
                deltaQuat == QuatFromEuler(d.x, d.y, d.z)
            IN [s EXCEPT !.angularVelocity = w,
                         !.rotation = QuatNormalize(QuatMultiply(s.rotation, deltaQuat))]

----------------------------------------------------------------------------
(* PhysicsEngine.updateBattery *)

CutoffPercentage == 10 * Unit

RECURSIVE SumCurrent(_, _, _)
SumCurrent(cfg, s, i) ==
    IF i = 0 THEN 0
    ELSE (((s.batteryVoltage * cfg.motors.kv) \div 1000) * s.motorSpeeds[i]) \div (2 * Unit)
         + SumCurrent(cfg, s, i - 1)

\* the percentage without its floor at 0
PercentageUnfloored(cfg, used) ==
    100 * Unit - (100 * used) \div ((cfg.battery.capacity * 1000) \div 100)

\* 100 * (1 - used / capacity), floored at 0, in 1/100 percent
PercentageOf(cfg, used) ==
    Max(0, 100 * Unit - (100 * used) \div ((cfg.battery.capacity * 1000) \div 100))

\* no cutoff at all
BatteryNoCutoff(s) == s

BatteryCutoff(s) ==
    IF s.batteryPercentage < CutoffPercentage THEN [s EXCEPT !.isArmed = FALSE] ELSE s

updateBattery(cfg, s, used, dt) ==
    LET totalCurrent == SumCurrent(cfg, s, Len(s.motorSpeeds))
        used1 == used + (totalCurrent * dt) \div 432
        cellCount == cfg.battery.cells
        vFull == cellCount * 4200
        vEmpty == cellCount * 3500
        vDrop == ((vFull - vEmpty) * (used1 \div 100)) \div ((cfg.battery.capacity * 1000) \div 100)
        internalResistance == cellCount * 2
        s1 == [s EXCEPT !.currentDraw = totalCurrent,
                        !.batteryPercentage = PercentageOf(cfg, used1),
                        !.batteryVoltage = vFull - vDrop - (totalCurrent * internalResistance) \div 100]
    IN [state |-> BatteryCutoff(s1), batteryUsedAh |-> used1]

----------------------------------------------------------------------------
(* PhysicsEngine.update *)

ControlVector(t, p, r, y) == [throttle |-> t, pitch |-> p, roll |-> r, yaw |-> y]

\* the position and speed updateLinearMotion integrates to, before its floor
Integrated(cfg, env, s, f, dt) ==
    LET m == calculateTotalMass(cfg)
        v == VecAdd(s.velocity,
                    VecTimesDt(Vec((f.x * 100) \div m, (f.y * 100) \div m,
                                   (f.z * 100) \div m), dt))
        p == VecAdd(s.position, VecTimesDt(v, dt))
    IN [ran |-> TRUE, y |-> p.y, speed |-> VecLength(v),
        groundHeight |-> getTerrainHeight(env.terrain, p.x, p.z)]

\* the state before updateBattery runs, and the force terms of the tick
BeforeBattery(cfg, env, s, controls, dt, noise) ==
    LET s1 == IF ~s.isArmed
              THEN [s EXCEPT !.temperature =
                                Max(env.temperature * 1000,
                                    @ - (1000 * dt) \div TicksPerSecond),
                             !.motorSpeeds = ZeroMotors(cfg)]
              ELSE updateMotorSpeeds(cfg,
                       [s EXCEPT !.temperature =
                            Min(100000, @ + (((s.currentDraw \div 20) * dt) \div TicksPerSecond))],
                       controls, dt)
        s2 == checkCollisions(env, s1)
        f == calculateForces(cfg, env, s2, noise)
        torques == IF s2.isArmed THEN calculateTorques(cfg, s2, controls) ELSE ZeroVec
        s3 == updateLinearMotion(cfg, s2, f.total, dt)
        s4 == updateAngularMotion(cfg, s3, torques, dt)
    IN [state |-> s4, forces |-> f,
        integration |-> Integrated(cfg, env, s2, f.total, dt)]

Collided(s) ==
    [s EXCEPT !.isArmed = FALSE, !.motorSpeeds = [i \in DOMAIN s.motorSpeeds |-> 0]]

InRange(s) ==
    /\ IsFinite(s)
    /\ \A c \in {s.velocity.x, s.velocity.y, s.velocity.z} : Abs(c) <= MaxSpeedCm
    /\ \A c \in {s.position.x, s.position.y, s.position.z} : Abs(c) <= MaxPosCm
    /\ \A c \in {s.angularVelocity.x, s.angularVelocity.y, s.angularVelocity.z} :
            Abs(c) <= MaxOmegaMrad
    /\ Abs(s.batteryVoltage) <= MaxVoltMv
    /\ Abs(batteryUsedAh) <= MaxUsedUah

update(controls, dt, noise) ==
    /\ InRange(state)
    /\ IF state.isCollided
       THEN /\ state' = Collided(state)
            /\ UNCHANGED <<batteryUsedAh, forces, integration>>
       ELSE LET pre == BeforeBattery(config, environment, state, controls, dt, noise)
                post == updateBattery(config, pre.state, batteryUsedAh, dt)
            IN /\ state' = [post.state EXCEPT !.timestamp = @ + dt]
               /\ batteryUsedAh' = post.batteryUsedAh
               /\ forces' = pre.forces
               /\ integration' = pre.integration
    /\ lastOp' = "update"
    /\ ticks' = ticks + 1
    /\ UNCHANGED <<config, environment, homePosition, fc, pid, commands, call,
                   physicsAccumulator>>

----------------------------------------------------------------------------
(* PhysicsEngine.arm, disarm, reset *)

Command ==
    /\ commands < MaxCommands
    /\ commands' = commands + 1

arm ==
    /\ state' = [state EXCEPT !.isArmed = TRUE]
    /\ lastOp' = "arm"
    /\ UNCHANGED <<config, environment, batteryUsedAh, homePosition, forces,
                   integration, fc, pid, commands, ticks, call,
                   physicsAccumulator>>

Disarmed(s) ==
    [s EXCEPT !.isArmed = FALSE, !.motorSpeeds = [i \in DOMAIN s.motorSpeeds |-> 0]]

disarm ==
    /\ state' = Disarmed(state)
    /\ lastOp' = "disarm"
    /\ UNCHANGED <<config, environment, batteryUsedAh, homePosition, forces,
                   integration, fc, pid, commands, ticks, call,
                   physicsAccumulator>>

\* a reset that forgets to clear the crash flag and the velocity
ResetKeepingCrash(cfg, s, home) ==
    [s EXCEPT !.position = home,
              !.rotation = IdentityQuat,
              !.angularVelocity = ZeroVec,
              !.motorSpeeds = [i \in DOMAIN s.motorSpeeds |-> 0],
              !.batteryPercentage = 100 * Unit,
              !.batteryVoltage = cfg.battery.cells * 4200,
              !.isArmed = FALSE]

ResetState(cfg, s, home) ==
    [s EXCEPT !.position = home,
              !.velocity = ZeroVec,
              !.rotation = IdentityQuat,
              !.angularVelocity = ZeroVec,
              !.motorSpeeds = [i \in DOMAIN s.motorSpeeds |-> 0],
              !.batteryPercentage = 100 * Unit,
              !.batteryVoltage = cfg.battery.cells * 4200,
              !.isArmed = FALSE,
              !.isCollided = FALSE]

reset ==
    /\ state' = ResetState(config, state, homePosition)
    /\ batteryUsedAh' = 0
    /\ lastOp' = "reset"
    /\ UNCHANGED <<config, environment, homePosition, forces, integration,
                   fc, pid, commands, ticks, call,
                   physicsAccumulator>>

----------------------------------------------------------------------------
(* PIDController *)

NullTime == -1

PIDMemory == [integral |-> 0, previousError |-> 0, previousTime |-> NullTime]

\* gains in 1/100, output limits in 1/100
Gains(p, i, d, lo, hi) == [kp |-> p, ki |-> i, kd |-> d, outputMin |-> lo, outputMax |-> hi]

PIDNames == {"rollPID", "pitchPID", "yawPID", "altitudePID", "positionXPID", "positionYPID"}

PIDGains ==
    [n \in PIDNames |->
        CASE n = "rollPID" -> Gains(400, 5, 120, -Unit, Unit)
          [] n = "pitchPID" -> Gains(400, 5, 120, -Unit, Unit)
          [] n = "yawPID" -> Gains(300, 1, 50, -Unit, Unit)
          [] n = "altitudePID" -> Gains(200, 0, 150, -Unit, Unit)
          [] n = "positionXPID" -> Gains(50, 0, 20, -Unit \div 2, Unit \div 2)
          [] n = "positionYPID" -> Gains(50, 0, 20, -Unit \div 2, Unit \div 2)]

\* the clamp with its lower bound forgotten
PIDClampNoFloor(g, output) == Min(g.outputMax, output)

PIDClamp(g, output) == Max(g.outputMin, Min(g.outputMax, output))

\* the accumulation of this step kept as it is, saturated or not
NoAntiWindup(g, output, integral, error, dt) == integral

\* anti-windup: a saturated output undoes the accumulation of this step
AntiWindup(g, output, integral, error, dt) ==
    IF output = g.outputMin \/ output = g.outputMax
    THEN integral - error * dt ELSE integral

\* PIDController.update past its first call; setpoint and measured in
\* 1/1000, dt in 1/120 s, the integral in 1/1000 * 1/120 s; returns the new
\* memory and the output
PIDCompute(g, mem, setpoint, measured, dt, now) ==
    LET error == setpoint - measured
        pTerm == (g.kp * error) \div 1000
        integral1 == mem.integral + error * dt
        iTerm == (g.ki * (integral1 \div TicksPerSecond)) \div 1000
        derivative == ((error - mem.previousError) * TicksPerSecond) \div dt
        dTerm == (g.kd * derivative) \div 1000
        output == PIDClamp(g, pTerm + iTerm + dTerm)
    IN [mem |-> [integral |-> AntiWindup(g, output, integral1, error, dt),
                 previousError |-> error,
                 previousTime |-> now],
        output |-> output]

\* an update that computes on its first call as on any other
PIDUpdateNoFirstCall(g, mem, setpoint, measured, dt, now) ==
    PIDCompute(g, mem, setpoint, measured, dt, now)

\* PIDController.update
PIDUpdate(g, mem, setpoint, measured, dt, now) ==
    IF mem.previousTime = NullTime
    THEN [mem |-> [mem EXCEPT !.previousTime = now], output |-> 0]
    ELSE PIDCompute(g, mem, setpoint, measured, dt, now)

\* CascadedPIDController.reset
PIDResetAll == [n \in PIDNames |-> PIDMemory]

----------------------------------------------------------------------------
(* Angles: Math.atan2 and THREE.Euler.setFromQuaternion, in mrad *)

\* atan of a ratio r in [0, 1] given in 1/1000
AtanUnit(r) == (r * 785) \div 1000 + (((273 * r) \div 1000) * (1000 - r)) \div 1000

Atan2(y, x) ==
    IF x = 0 /\ y = 0 THEN 0
    ELSE LET ax == Abs(x)
             ay == Abs(y)
             a == IF ax >= ay THEN AtanUnit((ay * 1000) \div ax)
                  ELSE Pi \div 2 - AtanUnit((ax * 1000) \div ay)
             b == IF x < 0 THEN Pi - a ELSE a
         IN IF y < 0 THEN -b ELSE b

Asin(v) == Atan2(v, ISqrt(QUnit * QUnit - v * v))

\* order XYZ; the result's x is used as roll, z as pitch, y as yaw
EulerFromQuaternion(q) ==
    LET m11 == QUnit - (2 * (q.y * q.y + q.z * q.z)) \div QUnit
        m12 == (2 * (q.x * q.y - q.w * q.z)) \div QUnit
        m13 == (2 * (q.x * q.z + q.w * q.y)) \div QUnit
        m22 == QUnit - (2 * (q.x * q.x + q.z * q.z)) \div QUnit
        m23 == (2 * (q.y * q.z - q.w * q.x)) \div QUnit
        m32 == (2 * (q.y * q.z + q.w * q.x)) \div QUnit
        m33 == QUnit - (2 * (q.x * q.x + q.y * q.y)) \div QUnit
    IN IF Abs(m13) < QUnit
       THEN Vec(Atan2(-m23, m33), Asin(Clamp(m13, -QUnit, QUnit)), Atan2(-m12, m11))
       ELSE Vec(Atan2(m32, m22), Asin(Clamp(m13, -QUnit, QUnit)), 0)

----------------------------------------------------------------------------
(* FlightController: construction *)

NoTarget == <<>>

ZeroControls == ControlVector(0, 0, 0, 0)

InitialController ==
    [controls |-> ZeroControls,
     keys |-> {},
     leftStick |-> [x |-> 0, y |-> -Unit],
     rightStick |-> [x |-> 0, y |-> 0],
     draggingStick |-> "null",
     altitudeHold |-> FALSE,
     positionHold |-> FALSE,
     returnToHome |-> FALSE,
     flightMode |-> "stabilize",
     loiterTarget |-> NoTarget,
     handler |-> "none"]

FlightModes == {"stabilize", "loiter", "rth"}

----------------------------------------------------------------------------
(* FlightController.updateFromSticks, updateFromKeyboard *)

updateFromSticks(f) ==
    LET stickThrottle == (f.leftStick.y + Unit) \div 2
        c1 == IF f.draggingStick = "left-stick" \/ Abs(f.leftStick.y + Unit) > 1
              THEN [f.controls EXCEPT !.throttle = stickThrottle, !.yaw = f.leftStick.x]
              ELSE f.controls
        c2 == IF f.draggingStick = "right-stick" \/ Abs(f.rightStick.x) > 1
                 \/ Abs(f.rightStick.y) > 1
              THEN [c1 EXCEPT !.pitch = f.rightStick.y, !.roll = f.rightStick.x]
              ELSE c1
    IN [f EXCEPT !.controls = c2]

\* an axis driven by a decreasing and an increasing key, centring when idle
KeyAxis(v, down, up, step) ==
    IF down THEN Max(-Unit, v - step)
    ELSE IF up THEN Min(Unit, v + step)
    ELSE IF Abs(v) < step THEN 0
    ELSE IF v > 0 THEN v - step ELSE v + step

\* the same, for the axes whose increasing key is tested first
KeyAxisUpFirst(v, up, down, step) ==
    IF up THEN Min(Unit, v + step)
    ELSE IF down THEN Max(-Unit, v - step)
    ELSE IF Abs(v) < step THEN 0
    ELSE IF v > 0 THEN v - step ELSE v + step

updateFromKeyboard(f) ==
    LET shift == "shift" \in f.keys
        step == IF shift THEN 15 ELSE 6
        throttleStep == IF shift THEN 10 ELSE 4
        c == f.controls
        throttle == IF "arrowup" \in f.keys THEN Min(Unit, c.throttle + throttleStep)
                    ELSE IF "arrowdown" \in f.keys THEN Max(0, c.throttle - throttleStep)
                    ELSE c.throttle
    IN [f EXCEPT !.controls =
            [throttle |-> throttle,
             yaw |-> KeyAxis(c.yaw, "arrowleft" \in f.keys, "arrowright" \in f.keys, step),
             pitch |-> KeyAxisUpFirst(c.pitch, "w" \in f.keys, "s" \in f.keys, step),
             roll |-> KeyAxis(c.roll, "a" \in f.keys, "d" \in f.keys, step)]]

----------------------------------------------------------------------------
(* FlightController mode handlers; each returns the controller and the PIDs *)

applyStabilize(f, p, physicsState, dt, now) ==
    LET euler == EulerFromQuaternion(physicsState.rotation)
        currentRoll == euler.x
        currentPitch == euler.z
        dead == 5
        r == IF Abs(f.controls.roll) < dead
             THEN PIDUpdate(PIDGains["rollPID"], p["rollPID"], 0, currentRoll, dt, now)
             ELSE [mem |-> p["rollPID"], output |-> 0]
        roll == IF Abs(f.controls.roll) < dead
                THEN (f.controls.roll * 6 + r.output * 4) \div 10
                ELSE f.controls.roll
        q == IF Abs(f.controls.pitch) < dead
             THEN PIDUpdate(PIDGains["pitchPID"], p["pitchPID"], 0, currentPitch, dt, now)
             ELSE [mem |-> p["pitchPID"], output |-> 0]
        pitch == IF Abs(f.controls.pitch) < dead
                 THEN (f.controls.pitch * 6 + q.output * 4) \div 10
                 ELSE f.controls.pitch
    IN [fc |-> [f EXCEPT !.controls.roll = roll, !.controls.pitch = pitch,
                         !.handler = "stabilize"],
        pid |-> [p EXCEPT !["rollPID"] = r.mem, !["pitchPID"] = q.mem]]

applyLoiter(f, p, physicsState, dt, now) ==
    LET target == IF f.loiterTarget = NoTarget THEN physicsState.position
                  ELSE f.loiterTarget[1]
        desiredAltitude == target.y
        errX == target.x - physicsState.position.x
        errY == target.z - physicsState.position.z
        px == PIDUpdate(PIDGains["positionXPID"], p["positionXPID"], 0, errX * 10, dt, now)
        py == PIDUpdate(PIDGains["positionYPID"], p["positionYPID"], 0, errY * 10, dt, now)
        alt == PIDUpdate(PIDGains["altitudePID"], p["altitudePID"], desiredAltitude * 10,
                         physicsState.position.y * 10, dt, now)
    IN [fc |-> [f EXCEPT !.loiterTarget = <<target>>,
                         !.controls.roll = Clamp(px.output, -Unit, Unit),
                         !.controls.pitch = Clamp(py.output, -Unit, Unit),
                         !.controls.throttle =
                             Clamp(f.controls.throttle + (alt.output * 2) \div 10, 0, Unit),
                         !.handler = "loiter"],
        pid |-> [p EXCEPT !["positionXPID"] = px.mem, !["positionYPID"] = py.mem,
                          !["altitudePID"] = alt.mem]]

RECURSIVE WrapAngle(_)
WrapAngle(a) ==
    IF a > Pi THEN WrapAngle(a - 2 * Pi)
    ELSE IF a < -Pi THEN WrapAngle(a + 2 * Pi)
    ELSE a

\* horizontal distance to home, cm
HomeDistance(home, physicsState) ==
    VecLength(Vec(home.x - physicsState.position.x, 0, home.z - physicsState.position.z))

\* arrival decided on the horizontal distance alone
RthArrivedAnyAltitude(home, physicsState) ==
    HomeDistance(home, physicsState) < 50

RthArrived(home, physicsState) ==
    HomeDistance(home, physicsState) < 50 /\ physicsState.position.y < 20

\* forward pitch proportional to the distance, without its limits
RthForwardUnbounded(distance) == distance \div 10

\* Math.max(0.1, Math.min(0.5, distance * 0.1))
RthForward(distance) == Max(10, Min(50, distance \div 10))

applyRTH(f, p, home, physicsState, dt, now) ==
    LET desiredAlt == Max(5 * Unit, home.y + 2 * Unit)
        alt == PIDUpdate(PIDGains["altitudePID"], p["altitudePID"], desiredAlt * 10,
                         physicsState.position.y * 10, dt, now)
        throttle1 == Clamp(f.controls.throttle + (alt.output * 3) \div 10, 0, Unit)
        dirX == home.x - physicsState.position.x
        dirZ == home.z - physicsState.position.z
        distance == HomeDistance(home, physicsState)
        \* dir.normalize() keeps the direction, which is all atan2 uses
        desiredYaw == Atan2(dirX, dirZ)
        yawNow == EulerFromQuaternion(physicsState.rotation).y
        yawErr == WrapAngle(desiredYaw - yawNow)
        yaw == Clamp((yawErr * Unit) \div (Pi \div 2), -Unit, Unit)
        forward == RthForward(distance)
        near == distance < 50
        f1 == [f EXCEPT !.controls.throttle = IF near THEN Max(0, throttle1 - 1) ELSE throttle1,
                        !.controls.yaw = yaw,
                        !.controls.pitch = IF near THEN 0 ELSE forward,
                        !.handler = "rth"]
    IN [fc |-> IF RthArrived(home, physicsState)
               THEN [f1 EXCEPT !.returnToHome = FALSE, !.flightMode = "stabilize"]
               ELSE f1,
        pid |-> [p EXCEPT !["altitudePID"] = alt.mem]]

----------------------------------------------------------------------------
(* FlightController.update *)

ClampControls(c) ==
    [throttle |-> Clamp(c.throttle, 0, Unit),
     pitch |-> Clamp(c.pitch, -Unit, Unit),
     roll |-> Clamp(c.roll, -Unit, Unit),
     yaw |-> Clamp(c.yaw, -Unit, Unit)]

ControllerUpdate(f, p, home, physicsState, dt, now) ==
    LET f1 == updateFromKeyboard(updateFromSticks(f))
        r == IF f1.flightMode = "loiter" THEN applyLoiter(f1, p, physicsState, dt, now)
             ELSE IF f1.flightMode = "rth" \/ f1.returnToHome
                  THEN applyRTH(f1, p, home, physicsState, dt, now)
             ELSE applyStabilize(f1, p, physicsState, dt, now)
    IN [fc |-> [r.fc EXCEPT !.controls = ClampControls(r.fc.controls)], pid |-> r.pid]

----------------------------------------------------------------------------
(* FlightController commands *)

SetMode(f, mode, position) ==
    IF mode = "loiter" THEN [f EXCEPT !.flightMode = mode, !.loiterTarget = <<position>>]
    ELSE IF mode = "stabilize" THEN [f EXCEPT !.flightMode = mode, !.loiterTarget = NoTarget]
    ELSE IF mode = "rth" THEN [f EXCEPT !.flightMode = mode, !.returnToHome = TRUE]
    ELSE [f EXCEPT !.flightMode = mode]

setMode(mode) ==
    /\ Command
    /\ fc' = SetMode(fc, mode, state.position)
    /\ lastOp' = "setMode"
    /\ UNCHANGED <<physVars, pid, ticks, call,
                   physicsAccumulator>>

\* FlightController.reset
ControllerReset(f) ==
    [f EXCEPT !.controls = ZeroControls,
              !.leftStick = [x |-> 0, y |-> -Unit],
              !.rightStick = [x |-> 0, y |-> 0],
              !.altitudeHold = FALSE,
              !.positionHold = FALSE,
              !.returnToHome = FALSE]

resetUAV ==
    /\ Command
    /\ state' = ResetState(config, state, homePosition)
    /\ batteryUsedAh' = 0
    /\ fc' = ControllerReset(fc)
    /\ pid' = PIDResetAll
    /\ lastOp' = "resetUAV"
    /\ UNCHANGED <<config, environment, homePosition, forces, integration, ticks, call,
                   physicsAccumulator>>

emergencyStop ==
    /\ Command
    /\ state' = Disarmed(state)
    /\ fc' = [fc EXCEPT !.controls = ZeroControls]
    /\ lastOp' = "emergencyStop"
    /\ UNCHANGED <<config, environment, batteryUsedAh, homePosition, forces,
                   integration, pid, ticks, call,
                   physicsAccumulator>>

ControlKeys == {"arrowup", "arrowdown", "arrowleft", "arrowright", "w", "s", "a", "d", "shift"}

keydown(k) ==
    /\ Command
    /\ fc' = [fc EXCEPT !.keys = @ \cup {k}]
    /\ lastOp' = "keydown"
    /\ UNCHANGED <<physVars, pid, ticks, call,
                   physicsAccumulator>>

keyup(k) ==
    /\ Command
    /\ k \in fc.keys
    /\ fc' = [fc EXCEPT !.keys = @ \ {k}]
    /\ lastOp' = "keyup"
    /\ UNCHANGED <<physVars, pid, ticks, call,
                   physicsAccumulator>>

\* normalized stick deflections handleStickDrag can report (inside the unit circle)
StickPositions == {[x |-> 0, y |-> Unit], [x |-> 60, y |-> -80], [x |-> -3, y |-> 2]}

\* mousedown on a stick boundary followed by handleStickDrag
handleStickDrag(stick, pos) ==
    /\ Command
    /\ fc' = IF stick = "left-stick"
             THEN [fc EXCEPT !.draggingStick = stick, !.leftStick = pos]
             ELSE [fc EXCEPT !.draggingStick = stick, !.rightStick = pos]
    /\ lastOp' = "stickDrag"
    /\ UNCHANGED <<physVars, pid, ticks, call,
                   physicsAccumulator>>

handleStickRelease ==
    /\ Command
    /\ fc.draggingStick # "null"
    /\ fc' = IF fc.draggingStick = "right-stick"
             THEN [fc EXCEPT !.rightStick = [x |-> 0, y |-> 0], !.draggingStick = "null"]
             ELSE [fc EXCEPT !.leftStick = [x |-> 0, y |-> fc.leftStick.y],
                             !.draggingStick = "null"]
    /\ lastOp' = "stickRelease"
    /\ UNCHANGED <<physVars, pid, ticks, call,
                   physicsAccumulator>>

----------------------------------------------------------------------------
(* FlightController.update on the pose the physics engine has reached *)

Pose(p, q) == [position |-> p, rotation |-> q]

\* poses a flight reaches: at home and level; far out and yawed 90 degrees
\* (Scenario D); landed next to home; off to the side, rolled 0.2 rad
SamplePoses ==
    {Pose(Vec(0, 2 * Unit, 0), IdentityQuat),
     Pose(Vec(50 * Unit, 10 * Unit, 0), Quat(0, 707, 0, 707)),
     Pose(Vec(20, 15, 0), IdentityQuat),
     Pose(Vec(-300, 300, 400), Quat(100, 0, 0, 995))}

controllerUpdate(pose, dt) ==
    LET physicsState == [state EXCEPT !.position = pose.position,
                                      !.rotation = pose.rotation]
        r == ControllerUpdate(fc, pid, homePosition, physicsState, dt, ticks)
    IN /\ state' = physicsState
       /\ fc' = r.fc
       /\ pid' = r.pid
       /\ lastOp' = "controllerUpdate"
       /\ ticks' = ticks + 1
       /\ UNCHANGED <<config, environment, batteryUsedAh, homePosition, forces,
                      integration, commands, call,
                   physicsAccumulator>>

----------------------------------------------------------------------------
(* Specifications *)

ControlInputs == {ControlVector(Unit, 0, 0, 0), ControlVector(150, -200, 50, 120)}

\* 1/120 s, the simulator's physicsTimestep, and a long step of 1.25 s
TimeSteps == {1, 150}

Init ==
    /\ \E f \in Flights : config = f[1] /\ environment = f[2]
    /\ state = InitialState(config, environment)
    /\ batteryUsedAh = 0
    /\ homePosition = Vec(0, 2 * Unit, 0)
    /\ forces = NoForces
    /\ integration = NoIntegration
    /\ fc = InitialController
    /\ pid = PIDResetAll
    /\ lastOp = "init"
    /\ commands = 0
    /\ ticks = 0
    /\ physicsAccumulator = 0
    /\ call = NoCall

Tick ==
    /\ ticks < MaxTicks
    /\ \E c \in ControlInputs, dt \in TimeSteps, n \in NoiseSamples : update(c, dt, n)

ModeCommand == \E m \in FlightModes : setMode(m)

Next == Tick \/ arm \/ disarm \/ reset

Spec == Init /\ [][Next]_vars


\* airframes whose frame size is 0: the arm length and the inertia are 0
DegenerateFlights ==
    {<<[c EXCEPT !.frame.size = 0, !.frame.type = t], e>> :
        c \in {DefaultConfig, SmallPackQuad}, t \in {"quad-x", "hexa", "octa"},
        e \in {Calm("urban"), Windy("urban"), Calm("plateau")}}

InitDegenerate ==
    /\ \E f \in DegenerateFlights : config = f[1] /\ environment = f[2]
    /\ state = InitialState(config, environment)
    /\ batteryUsedAh = 0
    /\ homePosition = Vec(0, 2 * Unit, 0)
    /\ forces = NoForces
    /\ integration = NoIntegration
    /\ fc = InitialController
    /\ pid = PIDResetAll
    /\ lastOp = "init"
    /\ commands = 0
    /\ ticks = 0
    /\ physicsAccumulator = 0
    /\ call = NoCall

SpecDegenerate == InitDegenerate /\ [][Next]_vars


\* endurance run: a heavy octocopter held at a fixed throttle, 1/120 s steps
SustainedConfigs == {HeavyOcta, [HeavyOcta EXCEPT !.motors.kv = 2600]}
SustainedInputs == {ControlVector(Unit, 0, 0, 0), ControlVector(Unit \div 2, 0, 0, 0)}

InitSustained ==
    /\ config \in SustainedConfigs
    /\ environment = Calm("urban")
    /\ state = InitialState(config, environment)
    /\ batteryUsedAh = 0
    /\ homePosition = Vec(0, 2 * Unit, 0)
    /\ forces = NoForces
    /\ integration = NoIntegration
    /\ fc = InitialController
    /\ pid = PIDResetAll
    /\ lastOp = "init"
    /\ commands = 0
    /\ ticks = 0
    /\ physicsAccumulator = 0
    /\ call = NoCall

SustainedTick ==
    /\ ticks < MaxSustainedTicks
    /\ \E c \in SustainedInputs : update(c, 1, ZeroVec)

NextSustained == SustainedTick \/ arm

SpecSustained == InitSustained /\ [][NextSustained]_vars

\* the flight controller alone, fed the poses of a flight
InitFC ==
    /\ config = DefaultConfig
    /\ environment = Calm("urban")
    /\ state = InitialState(config, environment)
    /\ batteryUsedAh = 0
    /\ homePosition = Vec(0, 2 * Unit, 0)
    /\ forces = NoForces
    /\ integration = NoIntegration
    /\ fc = InitialController
    /\ pid = PIDResetAll
    /\ lastOp = "init"
    /\ commands = 0
    /\ ticks = 0
    /\ physicsAccumulator = 0
    /\ call = NoCall

ControllerTick ==
    /\ ticks < MaxFcTicks
    /\ \E pose \in SamplePoses : controllerUpdate(pose, 1)

KeyDown == \E k \in ControlKeys : keydown(k)
KeyUp == \E k \in ControlKeys : keyup(k)
StickDrag ==
    \E stick \in {"left-stick", "right-stick"}, pos \in StickPositions :
        handleStickDrag(stick, pos)

NextFC ==
    \/ ControllerTick
    \/ KeyDown
    \/ KeyUp
    \/ StickDrag
    \/ handleStickRelease
    \/ ModeCommand
    \/ emergencyStop
    \/ resetUAV

SpecFC == InitFC /\ [][NextFC]_vars


----------------------------------------------------------------------------
(* One PIDController of the cascade, called with arbitrary samples *)

MaxPidCalls == 5

\* setpoints and measurements in 1/1000, sample intervals in 1/120 s
PidSetpoints == {0, 5000}
PidMeasurements == {-2000, 20, 5000}
PidIntervals == {1, 12}

InitPID ==
    /\ config = DefaultConfig
    /\ environment = Calm("urban")
    /\ state = InitialState(config, environment)
    /\ batteryUsedAh = 0
    /\ homePosition = Vec(0, 2 * Unit, 0)
    /\ forces = NoForces
    /\ integration = NoIntegration
    /\ fc = InitialController
    /\ pid = PIDResetAll
    /\ lastOp = "init"
    /\ commands = 0
    /\ ticks = 0
    /\ physicsAccumulator = 0
    /\ \E n \in PIDNames : call = [op |-> "construct", name |-> n]

pidUpdate(setpoint, measured, dt) ==
    LET n == call.name
        r == PIDUpdate(PIDGains[n], pid[n], setpoint, measured, dt, ticks)
    IN /\ ticks < MaxPidCalls
       /\ pid' = [pid EXCEPT ![n] = r.mem]
       /\ call' = [op |-> "pidUpdate", name |-> n, setpoint |-> setpoint,
                   measured |-> measured, dt |-> dt, before |-> pid[n],
                   output |-> r.output]
       /\ lastOp' = "pidUpdate"
       /\ ticks' = ticks + 1
       /\ UNCHANGED <<physVars, fc, commands, physicsAccumulator>>

\* PIDController.reset
pidReset ==
    /\ call.op = "pidUpdate"
    /\ pid' = [pid EXCEPT ![call.name] = PIDMemory]
    /\ call' = [op |-> "pidReset", name |-> call.name]
    /\ lastOp' = "pidReset"
    /\ UNCHANGED <<physVars, fc, commands, ticks, physicsAccumulator>>

PidSample ==
    \E setpoint \in PidSetpoints, measured \in PidMeasurements, dt \in PidIntervals :
        pidUpdate(setpoint, measured, dt)

NextPID == PidSample \/ pidReset

SpecPID == InitPID /\ [][NextPID]_vars

----------------------------------------------------------------------------
(* The motor mixer of an armed aircraft, called with arbitrary controls *)

MaxMixCalls == 2

MixerConfigs == {DefaultConfig, SmallPackHexa, HeavyOcta}

MixerInputs ==
    {ControlVector(t, p, r, y) :
        t \in {0, 50, 150}, p \in {-100, 10}, r \in {0, 20}, y \in {0, 5}}

InitMixer ==
    /\ config \in MixerConfigs
    /\ environment = Calm("urban")
    /\ state = [InitialState(config, environment) EXCEPT !.isArmed = TRUE]
    /\ batteryUsedAh = 0
    /\ homePosition = Vec(0, 2 * Unit, 0)
    /\ forces = NoForces
    /\ integration = NoIntegration
    /\ fc = InitialController
    /\ pid = PIDResetAll
    /\ lastOp = "init"
    /\ commands = 0
    /\ ticks = 0
    /\ physicsAccumulator = 0
    /\ call = NoCall

mix(controls, dt) ==
    /\ ticks < MaxMixCalls
    /\ state' = updateMotorSpeeds(config, state, controls, dt)
    /\ call' = [op |-> "updateMotorSpeeds", controls |-> controls, dt |-> dt,
                before |-> state.motorSpeeds]
    /\ lastOp' = "updateMotorSpeeds"
    /\ ticks' = ticks + 1
    /\ UNCHANGED <<config, environment, batteryUsedAh, homePosition, forces,
                   integration, fc, pid, commands, physicsAccumulator>>

NextMixer == \E controls \in MixerInputs, dt \in {1, 2} : mix(controls, dt)

SpecMixer == InitMixer /\ [][NextMixer]_vars

----------------------------------------------------------------------------
(* UAVSimulator.animate: the frame loop with its fixed-step physics drain *)

MaxFrames == 3

\* 1 / 120 s, in 1/1200 s
physicsTimestep == 10

\* elapsed time between two frames, in 1/1200 s
FrameDurations == {0, 4, 10, 25, 47}

InitLoop ==
    /\ config = DefaultConfig
    /\ environment = Calm("urban")
    /\ state = InitialState(config, environment)
    /\ batteryUsedAh = 0
    /\ homePosition = Vec(0, 2 * Unit, 0)
    /\ forces = NoForces
    /\ integration = NoIntegration
    /\ fc = InitialController
    /\ pid = PIDResetAll
    /\ lastOp = "init"
    /\ commands = 0
    /\ ticks = 0
    /\ physicsAccumulator = 0
    /\ call = [op |-> "animated", frames |-> 0, deltaTime |-> 0, before |-> 0,
               steps |-> 0, elapsed |-> 0]

\* the frame so far: elapsed time added to the accumulator
animate(deltaTime) ==
    /\ call.op = "animated"
    /\ call.frames < MaxFrames
    /\ physicsAccumulator' = physicsAccumulator + deltaTime
    /\ call' = [op |-> "animate", frames |-> call.frames + 1, deltaTime |-> deltaTime,
                before |-> physicsAccumulator, steps |-> 0,
                elapsed |-> call.elapsed + deltaTime]
    /\ lastOp' = "animate"
    /\ UNCHANGED <<physVars, fc, pid, commands, ticks>>

StepPendingStrict(accumulator) == accumulator > physicsTimestep

\* the condition of the while loop
StepPending(accumulator) == accumulator >= physicsTimestep

\* what one pass of the while loop does to the accumulator
drain ==
    /\ call.op = "animate"
    /\ StepPending(physicsAccumulator)
    /\ physicsAccumulator' = physicsAccumulator - physicsTimestep

\* one pass of the while loop: updatePhysics(physicsTimestep), that is
\* flightController.update then physics.update, and the subtraction
updatePhysics ==
    /\ drain
    /\ InRange(state)
    /\ LET c == ControllerUpdate(fc, pid, homePosition, state, 1, ticks)
       IN /\ fc' = c.fc
          /\ pid' = c.pid
          /\ IF state.isCollided
             THEN /\ state' = Collided(state)
                  /\ UNCHANGED <<batteryUsedAh, forces, integration>>
             ELSE \E noise \in NoiseSamples :
                    LET pre == BeforeBattery(config, environment, state, c.fc.controls,
                                             1, noise)
                        post == updateBattery(config, pre.state, batteryUsedAh, 1)
                    IN /\ state' = [post.state EXCEPT !.timestamp = @ + 1]
                       /\ batteryUsedAh' = post.batteryUsedAh
                       /\ forces' = pre.forces
                       /\ integration' = pre.integration
    /\ call' = [call EXCEPT !.steps = @ + 1]
    /\ lastOp' = "updatePhysics"
    /\ ticks' = ticks + 1
    /\ UNCHANGED <<config, environment, homePosition, commands>>

\* the loop condition fails: the frame goes on to render
drained ==
    /\ call.op = "animate"
    /\ ~StepPending(physicsAccumulator)
    /\ call' = [call EXCEPT !.op = "animated"]
    /\ lastOp' = "render"
    /\ UNCHANGED <<physVars, fc, pid, commands, ticks, physicsAccumulator>>

Frame == \E deltaTime \in FrameDurations : animate(deltaTime)

NextLoop == Frame \/ updatePhysics \/ drained

\* animate is straight-line code: a pass of the loop that can run does run,
\* and so does the exit once the condition fails
SpecLoop ==
    InitLoop /\ [][NextLoop]_vars /\ WF_physicsAccumulator(drain) /\ WF_call(drained)

----------------------------------------------------------------------------
(* Properties *)

MotorsStopped(s) == \A i \in DOMAIN s.motorSpeeds : s.motorSpeeds[i] = 0

\* the last tick integrated to a point below the terrain, faster than the
\* crash threshold
ImpactAboveCrashSpeed ==
    /\ integration.ran
    /\ integration.y < integration.groundHeight
    /\ integration.speed > CrashSpeed

\* C1: while isCollided holds and until reset(), every tick, arm() and
\* disarm() leaves the aircraft collided, disarmed and with all motors at 0.
C1_CollidedStaysDisarmed ==
    [][(state.isCollided /\ lastOp' \in {"update", "arm", "disarm"})
        => (state'.isCollided /\ ~state'.isArmed /\ MotorsStopped(state'))]_vars

\* C2: when a tick integrates the aircraft below the terrain at more than the
\* crash speed, it is collided and disarmed at the latest when the following
\* tick has run.
C2_ImpactCrashes ==
    [][(lastOp = "update" /\ ImpactAboveCrashSpeed /\ lastOp' = "update")
        => (state'.isCollided /\ ~state'.isArmed)]_vars

\* C3: the state returned by the tick that sets isCollided is already
\* disarmed and has every motor speed at 0.
C3_CrashTickStopsMotors ==
    [][(~state.isCollided /\ state'.isCollided)
        => (~state'.isArmed /\ MotorsStopped(state'))]_vars

\* C4: when a tick has left the battery below 10 percent, the next tick (no
\* command in between) ends disarmed; and the battery update itself never
\* touches isCollided.
C4_LowBatteryDisarms ==
    /\ [][(lastOp = "update" /\ state.batteryPercentage < CutoffPercentage
           /\ lastOp' = "update") => ~state'.isArmed]_vars
    /\ [](\A dt \in TimeSteps :
            updateBattery(config, state, batteryUsedAh, dt).state.isCollided
                = state.isCollided)

\* a tick that ran with the motors stopped because the battery had been
\* drained below the cutoff by the ticks before it
C4_Witness ==
    /\ lastOp = "update"
    /\ state.batteryPercentage < CutoffPercentage
    /\ batteryUsedAh > 0
    /\ state.currentDraw = 0
    /\ ~state.isArmed
    /\ ~state.isCollided

\* C5: a tick that draws a positive total current does not raise the battery
\* percentage, and the percentage is never negative.
C5_PercentageMonotone ==
    /\ [][(lastOp' = "update" /\ state'.currentDraw > 0)
            => state'.batteryPercentage <= state.batteryPercentage]_vars
    /\ [](state.batteryPercentage >= 0)

\* a drawing tick that ended with the pack over-discharged and the
\* percentage at its floor
C5_Witness ==
    /\ lastOp = "update"
    /\ state.currentDraw > 0
    /\ state.batteryPercentage = 0
    /\ batteryUsedAh > config.battery.capacity * 1000

\* C6: the battery percentage stays within [0, 100] after every tick.
C6_PercentageInRange ==
    state.batteryPercentage >= 0 /\ state.batteryPercentage <= 100 * Unit

\* C7: motorSpeeds has one entry per motor of the frame and every entry is
\* within [0, 1], whatever control vector update() is given.
C7_MotorSpeedsInRange ==
    /\ Len(state.motorSpeeds) = getMotorCount(config)
    /\ \A i \in DOMAIN state.motorSpeeds :
            state.motorSpeeds[i] >= 0 /\ state.motorSpeeds[i] <= Unit

\* an armed quad tick given the out-of-range vector: one motor clamped at 1,
\* another at 0
C7_Witness ==
    /\ lastOp = "update"
    /\ state.isArmed
    /\ getMotorCount(config) = 4
    /\ \E i, j \in DOMAIN state.motorSpeeds :
            state.motorSpeeds[i] = Unit /\ state.motorSpeeds[j] = 0

\* C8: the control vector FlightController.update() returns has throttle in
\* [0, 1] and pitch, roll and yaw in [-1, 1].
C8_ControlsInRange ==
    lastOp = "controllerUpdate"
        => /\ fc.controls.throttle >= 0 /\ fc.controls.throttle <= Unit
           /\ fc.controls.pitch >= -Unit /\ fc.controls.pitch <= Unit
           /\ fc.controls.roll >= -Unit /\ fc.controls.roll <= Unit
           /\ fc.controls.yaw >= -Unit /\ fc.controls.yaw <= Unit

\* a ReturnToHome tick below the return altitude with the throttle stick at
\* full: the altitude trim pushes the throttle against its upper limit
C8_Witness ==
    /\ lastOp = "controllerUpdate"
    /\ fc.handler = "rth"
    /\ fc.leftStick.y = Unit
    /\ pid["altitudePID"].previousError > 0
    /\ fc.controls.throttle = Unit

\* C9: disarm() stops every motor at once, and a tick that starts disarmed
\* keeps the motors at 0 and computes forces without thrust and without the
\* wind-relative drag.
C9_DisarmedNoThrustNoWind ==
    [][/\ lastOp' = "disarm" => (~state'.isArmed /\ MotorsStopped(state'))
       /\ (~state.isArmed /\ lastOp' = "update")
            => /\ MotorsStopped(state')
               /\ state.isCollided
                    \/ (forces'.computed /\ forces'.thrust = 0 /\ ~forces'.windApplied)]_vars

\* a tick in wind after disarm(): the pack has been used and is above the
\* cutoff, so the aircraft was disarmed by command
C9_Witness ==
    /\ lastOp = "update"
    /\ environment.windSpeed > 0
    /\ ~state.isArmed
    /\ ~state.isCollided
    /\ batteryUsedAh > 0
    /\ state.batteryPercentage >= CutoffPercentage
    /\ forces.computed /\ forces.thrust = 0 /\ ~forces.windApplied

\* C10: reset() restores the home pose, a full battery and cleared flags, and
\* no operation changes the home position.
C10_ResetRestoresHome ==
    [][/\ lastOp' = "reset"
            => /\ state'.position = Vec(0, 2 * Unit, 0)
               /\ state'.position = homePosition
               /\ state'.velocity = ZeroVec
               /\ state'.angularVelocity = ZeroVec
               /\ state'.rotation = IdentityQuat
               /\ MotorsStopped(state')
               /\ batteryUsedAh' = 0
               /\ state'.batteryPercentage = 100 * Unit
               /\ state'.batteryVoltage = config.battery.cells * 4200
               /\ ~state'.isArmed
               /\ ~state'.isCollided
       /\ homePosition' = homePosition]_vars

\* a reset after a tick that fell faster than the crash speed
C10_Witness ==
    /\ lastOp = "reset"
    /\ state.timestamp > 0
    /\ state.currentDraw > 0
    /\ integration.ran /\ integration.speed > CrashSpeed
    /\ state.position = homePosition
    /\ ~state.isCollided

\* C11: after the global reset (resetUAV) every mutable field has its value at
\* construction: pose, battery and flags, timestamp, temperature, current
\* draw, flight mode Stabilize, no loiter target, and the six PID memories.
C11_GlobalResetRestoresAll ==
    [][lastOp' = "resetUAV"
        => /\ state' = InitialState(config, environment)
           /\ batteryUsedAh' = 0
           /\ fc'.controls = ZeroControls
           /\ fc'.leftStick = InitialController.leftStick
           /\ fc'.rightStick = InitialController.rightStick
           /\ ~fc'.returnToHome
           /\ fc'.flightMode = "stabilize"
           /\ fc'.loiterTarget = NoTarget
           /\ pid' = PIDResetAll]_vars

\* C12: each tick runs the handler of the mode in force (the last commanded
\* mode, or Stabilize after ReturnToHome completed), and the mode changes
\* only by setMode or by that automatic transition.
C12_HandlerFollowsMode ==
    [][/\ lastOp' = "controllerUpdate" => fc'.handler = fc.flightMode
       /\ fc'.flightMode # fc.flightMode
            => \/ lastOp' = "setMode"
               \/ /\ lastOp' = "controllerUpdate"
                  /\ fc.flightMode = "rth"
                  /\ fc'.flightMode = "stabilize"]_vars

\* the aircraft is within 0.5 of home horizontally and below 0.2
LandedAtHome(s) == HomeDistance(homePosition, s) < 50 /\ s.position.y < 20

\* C13: a ReturnToHome tick puts the mode back to Stabilize exactly when the
\* horizontal distance to home is below 0.5 and the altitude below 0.2, any
\* other ReturnToHome tick leaves the mode alone, and the tick after the
\* switch runs the Stabilize handler.
C13_RthCompletesOnLanding ==
    [][/\ (lastOp' = "controllerUpdate" /\ fc'.handler = "rth")
            => IF LandedAtHome(state')
               THEN fc'.flightMode = "stabilize" /\ ~fc'.returnToHome
               ELSE fc'.flightMode = fc.flightMode /\ fc'.returnToHome = fc.returnToHome
       /\ (lastOp = "controllerUpdate" /\ fc.handler = "rth" /\ LandedAtHome(state)
           /\ lastOp' = "controllerUpdate")
            => fc'.handler = "stabilize"]_vars

\* a ReturnToHome tick on the landed pose has switched the mode back
C13_Witness ==
    /\ lastOp = "controllerUpdate"
    /\ fc.handler = "rth"
    /\ LandedAtHome(state)
    /\ fc.flightMode = "stabilize"
    /\ ~fc.returnToHome

\* C14 as stated: on a ReturnToHome tick the pitch command is within
\* [0.1, 0.5] while the horizontal distance to home is at least 0.5, and the
\* mode reverts to Stabilize once that distance is below 0.5.
C14_RevertsWhenNear ==
    [][(lastOp' = "controllerUpdate" /\ fc'.handler = "rth")
        => IF HomeDistance(homePosition, state') >= 50
           THEN fc'.controls.pitch >= 10 /\ fc'.controls.pitch <= 50
           ELSE fc'.flightMode = "stabilize"]_vars

\* C14: on a ReturnToHome tick the pitch command is within [0.1, 0.5] and the
\* mode is kept while the horizontal distance to home is at least 0.5; below
\* 0.5 the pitch command is 0, and the mode reverts to Stabilize only if the
\* altitude is below 0.2 as well.
C14_PitchBandThenLanding ==
    [][(lastOp' = "controllerUpdate" /\ fc'.handler = "rth")
        => IF HomeDistance(homePosition, state') >= 50
           THEN /\ fc'.controls.pitch >= 10 /\ fc'.controls.pitch <= 50
                /\ fc'.flightMode = fc.flightMode
           ELSE /\ fc'.controls.pitch = 0
                /\ IF state'.position.y < 20
                   THEN fc'.flightMode = "stabilize"
                   ELSE fc'.flightMode = fc.flightMode]_vars

\* a ReturnToHome tick over home but 2 up: pitch 0, mode still ReturnToHome
C14_Witness ==
    /\ lastOp = "controllerUpdate"
    /\ fc.handler = "rth"
    /\ HomeDistance(homePosition, state) < 50
    /\ state.position.y >= 20
    /\ fc.controls.pitch = 0
    /\ fc.flightMode = "rth"

\* C15: the first update() of a PIDController after construction or reset()
\* returns 0 and leaves the integral and the previous error as they were; it
\* only records the sample time.
C15_FirstCallOnlyRecordsTime ==
    (call.op = "pidUpdate" /\ call.before.previousTime = NullTime)
        => /\ call.output = 0
           /\ pid[call.name].integral = call.before.integral
           /\ pid[call.name].previousError = call.before.previousError
           /\ pid[call.name].previousTime # NullTime

\* a first call after a reset(), given a non-zero error
C15_Witness ==
    /\ call.op = "pidUpdate"
    /\ call.before.previousTime = NullTime
    /\ ticks >= 3
    /\ call.setpoint - call.measured > 1000
    /\ call.output = 0

\* C16: every value update() returns is within the controller's output
\* limits: [-1, 1] for roll, pitch, yaw and altitude, [-0.5, 0.5] for the two
\* position controllers.
C16_OutputWithinLimits ==
    call.op = "pidUpdate"
        => /\ call.output >= PIDGains[call.name].outputMin
           /\ call.output <= PIDGains[call.name].outputMax
           /\ call.name \in {"rollPID", "pitchPID", "yawPID", "altitudePID"}
                => (call.output >= -Unit /\ call.output <= Unit)
           /\ call.name \in {"positionXPID", "positionYPID"}
                => (call.output >= -50 /\ call.output <= 50)

\* a position controller driven by a large negative error, held at -0.5
C16_Witness ==
    /\ call.op = "pidUpdate"
    /\ call.name = "positionXPID"
    /\ call.before.previousTime # NullTime
    /\ call.setpoint - call.measured < -1000
    /\ call.output = -50

\* C17: an update() that returns outputMin or outputMax leaves the integral
\* accumulator at the value it had before the call.
C17_SaturatedKeepsIntegral ==
    (call.op = "pidUpdate"
     /\ (call.output = PIDGains[call.name].outputMin
         \/ call.output = PIDGains[call.name].outputMax))
        => pid[call.name].integral = call.before.integral

\* a saturated call with a non-zero error on a controller whose integral had
\* already accumulated
C17_Witness ==
    /\ call.op = "pidUpdate"
    /\ call.output = PIDGains[call.name].outputMax
    /\ call.before.integral # 0
    /\ call.setpoint # call.measured
    /\ pid[call.name].integral = call.before.integral

\* the PID controllers each mode handler calls
ModePIDs(mode) ==
    CASE mode = "stabilize" -> {"rollPID", "pitchPID"}
      [] mode = "loiter" -> {"positionXPID", "positionYPID", "altitudePID"}
      [] mode = "rth" -> {"altitudePID"}

\* C18: whenever the flight mode changes, by setMode or by the automatic
\* ReturnToHome completion, the PID memories used by the mode being left are
\* cleared.
C18_LeavingModeResetsPIDs ==
    [][fc'.flightMode # fc.flightMode
        => \A n \in ModePIDs(fc.flightMode) : pid'[n] = PIDMemory]_vars

\* C19 as stated: for 4 motors, motor i is clamp(throttle + sp*pitch +
\* sr*roll + sy*yaw, 0, 1) with the signs (-,+,-), (+,-,-), (-,-,+), (+,+,+);
\* for 6 or 8 motors every motor is clamp(throttle, 0, 1).
C19_MixerOfRawThrottle ==
    call.op = "updateMotorSpeeds"
        => LET c == call.controls
               t == c.throttle
           IN IF getMotorCount(config) = 4
              THEN state.motorSpeeds =
                    <<Max(0, Min(Unit, t - c.pitch + c.roll - c.yaw)),
                      Max(0, Min(Unit, t + c.pitch - c.roll - c.yaw)),
                      Max(0, Min(Unit, t - c.pitch - c.roll + c.yaw)),
                      Max(0, Min(Unit, t + c.pitch + c.roll + c.yaw))>>
              ELSE /\ Len(state.motorSpeeds) = getMotorCount(config)
                   /\ \A i \in DOMAIN state.motorSpeeds :
                        state.motorSpeeds[i] = Max(0, Min(Unit, t))

\* C19: with b = clamp(throttle, 0, 1), for 4 motors motor i is
\* clamp(b + sp*pitch + sr*roll + sy*yaw, 0, 1) with the signs (-,+,-),
\* (+,-,-), (-,-,+), (+,+,+); for 6 or 8 motors every motor is b.
C19_MixerOfClampedThrottle ==
    call.op = "updateMotorSpeeds"
        => LET c == call.controls
               b == Max(0, Min(Unit, c.throttle))
           IN IF getMotorCount(config) = 4
              THEN state.motorSpeeds =
                    <<Max(0, Min(Unit, b - c.pitch + c.roll - c.yaw)),
                      Max(0, Min(Unit, b + c.pitch - c.roll - c.yaw)),
                      Max(0, Min(Unit, b - c.pitch - c.roll + c.yaw)),
                      Max(0, Min(Unit, b + c.pitch + c.roll + c.yaw))>>
              ELSE /\ Len(state.motorSpeeds) = getMotorCount(config)
                   /\ \A i \in DOMAIN state.motorSpeeds : state.motorSpeeds[i] = b

\* a quad mixed from a throttle above 1 with all three axes deflected: the
\* four motors differ and the back-left one is below 1
C19_Witness ==
    /\ call.op = "updateMotorSpeeds"
    /\ getMotorCount(config) = 4
    /\ call.controls = ControlVector(150, 10, 20, 5)
    /\ state.motorSpeeds = <<100, 85, 75, 100>>

\* C20: each motor speed moves from its value at the previous tick toward
\* the commanded value by the first-order lag of rate 20 per second times dt,
\* instead of taking the commanded value at once.
C20_MotorSpeedLags ==
    call.op = "updateMotorSpeeds"
        => LET c == call.controls
               b == Max(0, Min(Unit, c.throttle))
               commanded == IF getMotorCount(config) = 4
                            THEN [i \in 1..4 |-> ClampMotor(MixQuad(c, b)[i])]
                            ELSE [i \in 1..getMotorCount(config) |-> b]
           IN \A i \in DOMAIN state.motorSpeeds :
                state.motorSpeeds[i] =
                    call.before[i]
                        + ((commanded[i] - call.before[i]) * 20 * call.dt) \div TicksPerSecond

\* C21: the collision step of a tick works on the position that tick's
\* integration produced, so no tick ends with the aircraft below the terrain
\* height at its horizontal position.
C21_CollisionAfterIntegration ==
    lastOp = "update"
        => state.position.y
             >= getTerrainHeight(environment.terrain, state.position.x, state.position.z)

\* C22: every frame drains the accumulator in steps of exactly
\* physicsTimestep; the loop ends, having run floor(accumulated / timestep)
\* steps and leaving 0 <= physicsAccumulator < physicsTimestep, so the
\* simulated time is at most the elapsed time and less than one step behind.
C22_FixedStepDrain ==
    /\ [](call.op = "animated"
            => /\ physicsAccumulator >= 0
               /\ physicsAccumulator < physicsTimestep
               /\ call.steps = (call.before + call.deltaTime) \div physicsTimestep
               /\ ticks * physicsTimestep <= call.elapsed
               /\ call.elapsed - ticks * physicsTimestep < physicsTimestep)
    /\ [](call.op \in {"animate", "animated"}
            => /\ physicsAccumulator >= 0
               /\ physicsAccumulator = call.elapsed - ticks * physicsTimestep)
    /\ (call.op = "animate") ~> (call.op = "animated")

\* a frame that came with a remainder in the accumulator and ran several
\* steps
C22_Witness ==
    /\ call.op = "animated"
    /\ lastOp = "render"
    /\ call.before > 0
    /\ call.steps >= 2
    /\ physicsAccumulator > 0
    /\ state.timestamp = ticks

\* C23: for a degenerate airframe (frame size 0) the mass and the inertia a
\* tick divides by are positive, and the tick leaves a finite angular velocity
\* and rotation.
C23_DivisorsPositive ==
    (lastOp = "update" /\ integration.ran)
        => /\ calculateTotalMass(config) > 0
           /\ inertia(config) > 0
           /\ IsFinite(state)

C25_KeysAsDocumented ==
    [][(/\ lastOp' = "controllerUpdate"
        /\ fc.draggingStick = "null"
        /\ fc.flightMode = "stabilize"
        /\ ~fc.returnToHome
        /\ fc.controls = ZeroControls)
          => /\ fc.keys = {"w"} => fc'.controls.throttle > 0
             /\ fc.keys = {"arrowup"} => fc'.controls.throttle = 0
             /\ fc.keys = {"a"} => fc'.controls.yaw # 0
             /\ fc.keys = {"arrowleft"} => fc'.controls.yaw = 0]_vars

\* C26: a tick whose integration puts the aircraft below the terrain ends
\* with the altitude at the terrain height of its position and no downward
\* speed, and, when the aircraft is disarmed, with no horizontal and no
\* angular velocity.
C26_LandsOnTerrain ==
    [][(/\ lastOp' = "update"
        /\ ~state.isCollided
        /\ IsFinite(state')
        /\ integration'.ran
        /\ integration'.y < integration'.groundHeight)
          => /\ state'.position.y = integration'.groundHeight
             /\ state'.velocity.y >= 0
             /\ ~state'.isArmed
                  => /\ state'.velocity.x = 0
                     /\ state'.velocity.z = 0
                     /\ state'.angularVelocity = ZeroVec]_vars

\* C27: in a Loiter tick each horizontal position PID works on the error
\* (captured target - current position) and the altitude PID on the error
\* (target altitude - current altitude); the throttle stays within [0, 1].
C27_LoiterErrors ==
    [][(/\ lastOp' = "controllerUpdate"
        /\ fc'.handler = "loiter"
        /\ fc.loiterTarget # NoTarget
        /\ pid["positionXPID"].previousTime # NullTime
        /\ pid["altitudePID"].previousTime # NullTime)
          => LET target == fc.loiterTarget[1]
                 position == state'.position
             IN /\ pid'["positionXPID"].previousError = (target.x - position.x) * 10
                /\ pid'["positionYPID"].previousError = (target.z - position.z) * 10
                /\ pid'["altitudePID"].previousError = (target.y - position.y) * 10
                /\ fc'.controls.throttle \in 0..Unit]_vars

\* C28: at the end of every tick, a disarmed aircraft has every motor speed
\* at 0, the ticks that disarm it automatically (battery cutoff, crash)
\* included.
C28_DisarmedMotorsAtZero ==
    (lastOp = "update" /\ ~state.isArmed) => MotorsStopped(state)

\* C29: in every reachable state, whatever ticks, arm(), disarm() and reset()
\* led to it, the altitude position.y is at least 0.1.
C29_AltitudeAtLeastFloor == state.position.y >= GroundFloor

\* a tick whose integration went below 0.1 and was put back on the floor
C29_Witness ==
    /\ lastOp = "update"
    /\ ~state.isCollided
    /\ integration.ran
    /\ integration.y < GroundFloor
    /\ state.position.y = GroundFloor

\* C30: once the battery percentage is below 10, arm() cannot make the motors
\* run again: until reset(), every tick leaves all motor speeds at 0 and
\* computes no thrust.
C30_NoRestartBelowCutoff ==
    [][(/\ state.batteryPercentage < CutoffPercentage
        /\ ~state.isCollided
        /\ lastOp' = "update")
          => /\ MotorsStopped(state')
             /\ forces'.thrust = 0]_vars

====
